---------------------------- MODULE Spec2Model ----------------------------
(***************************************************************************)
(* Model of archobjects/window_presets.py: the builders frame_rectangular  *)
(* and glass, and the composer window_single_pane.                         *)
(*                                                                         *)
(* Python computes every length with float (IEEE-754 binary64) arithmetic  *)
(* as soon as a true division or a float literal is involved.  The model   *)
(* keeps that arithmetic: a number is a record [sg, m, e] standing for     *)
(* sg * m * 2^e, with m a natural number of at most 53 bits held as a      *)
(* little-endian sequence of 15-bit limbs, and every operation rounds its  *)
(* exact result to 53 bits, ties to even.  Exponent overflow, subnormals   *)
(* and the sign of zero do not occur for the lengths drawn here.           *)
(***************************************************************************)
EXTENDS Integers, Sequences, FiniteSets, TLC

\* ------------------------------------------------------------------------
\* Natural numbers wider than a machine word: little-endian limb sequences
\* without leading (most significant) zero limbs; <<>> is zero.

LimbBits == 15

LimbBase == 2^LimbBits

\* sys.float_info.mant_dig of a Python float
MantDig == 53

RECURSIVE BNorm(_)
BNorm(a) ==
    IF a = <<>> THEN <<>>
    ELSE IF a[Len(a)] = 0 THEN BNorm(SubSeq(a, 1, Len(a) - 1))
    ELSE a

RECURSIVE BFromNat(_)
BFromNat(n) ==
    IF n = 0 THEN <<>> ELSE <<n % LimbBase>> \o BFromNat(n \div LimbBase)

BLimb(a, i) == IF i <= Len(a) THEN a[i] ELSE 0

BRest(a) == IF a = <<>> THEN <<>> ELSE Tail(a)

RECURSIVE BAddC(_, _, _)
BAddC(a, b, c) ==
    IF a = <<>> /\ b = <<>>
    THEN (IF c = 0 THEN <<>> ELSE <<c>>)
    ELSE LET x == BLimb(a, 1) + BLimb(b, 1) + c
         IN  <<x % LimbBase>> \o BAddC(BRest(a), BRest(b), x \div LimbBase)

BAdd(a, b) == BAddC(a, b, 0)

\* a - b for a >= b
RECURSIVE BSubC(_, _, _)
BSubC(a, b, c) ==
    IF a = <<>> THEN <<>>
    ELSE LET x == BLimb(a, 1) - BLimb(b, 1) - c
         IN  IF x < 0
             THEN <<x + LimbBase>> \o BSubC(BRest(a), BRest(b), 1)
             ELSE <<x>> \o BSubC(BRest(a), BRest(b), 0)

BSub(a, b) == BNorm(BSubC(a, b, 0))

\* -1, 0, 1 as a < b, a = b, a > b
RECURSIVE BCmpFrom(_, _, _)
BCmpFrom(a, b, i) ==
    IF i = 0 THEN 0
    ELSE IF a[i] < b[i] THEN -1
    ELSE IF a[i] > b[i] THEN 1
    ELSE BCmpFrom(a, b, i - 1)

BCmp(a, b) ==
    IF Len(a) < Len(b) THEN -1
    ELSE IF Len(a) > Len(b) THEN 1
    ELSE BCmpFrom(a, b, Len(a))

\* a * k for one limb k
RECURSIVE BMulC(_, _, _)
BMulC(a, k, c) ==
    IF a = <<>> THEN (IF c = 0 THEN <<>> ELSE <<c>>)
    ELSE LET x == a[1] * k + c
         IN  <<x % LimbBase>> \o BMulC(Tail(a), k, x \div LimbBase)

BMulS(a, k) == IF k = 0 THEN <<>> ELSE BMulC(a, k, 0)

BShiftLimbs(a, n) == IF a = <<>> THEN <<>> ELSE [i \in 1..n |-> 0] \o a

RECURSIVE BMul(_, _)
BMul(a, b) ==
    IF b = <<>> THEN <<>>
    ELSE BAdd(BMulS(a, b[1]), BShiftLimbs(BMul(a, Tail(b)), 1))

\* quotient and remainder of a by one limb k >= 1, top limb first
RECURSIVE BDivFrom(_, _, _, _)
BDivFrom(a, k, i, r) ==
    IF i = 0 THEN [q |-> <<>>, r |-> r]
    ELSE LET x    == r * LimbBase + a[i]
             rest == BDivFrom(a, k, i - 1, x % k)
         IN  [q |-> Append(rest.q, x \div k), r |-> rest.r]

BDivS(a, k) ==
    LET d == BDivFrom(a, k, Len(a), 0) IN [q |-> BNorm(d.q), r |-> d.r]

\* a * 2^s and floor(a / 2^s)
BShl(a, s) == BShiftLimbs(BMulS(a, 2^(s % LimbBits)), s \div LimbBits)

BShr(a, s) ==
    LET n == s \div LimbBits
    IN  IF n >= Len(a) THEN <<>>
        ELSE BDivS(SubSeq(a, n + 1, Len(a)), 2^(s % LimbBits)).q

RECURSIVE NatBits(_)
NatBits(x) == IF x = 0 THEN 0 ELSE 1 + NatBits(x \div 2)

BitLen(a) ==
    IF a = <<>> THEN 0 ELSE LimbBits * (Len(a) - 1) + NatBits(a[Len(a)])

RECURSIVE NatTrailing(_)
NatTrailing(x) == IF x % 2 = 1 THEN 0 ELSE 1 + NatTrailing(x \div 2)

\* number of trailing zero bits of a # 0
RECURSIVE BTrailing(_)
BTrailing(a) ==
    IF a[1] = 0 THEN LimbBits + BTrailing(Tail(a)) ELSE NatTrailing(a[1])

BOdd(a) == a # <<>> /\ a[1] % 2 = 1

\* ------------------------------------------------------------------------
\* Python float values and operations

FZero == [sg |-> 0, m |-> <<>>, e |-> 0]

\* canonical form: odd mantissa, so that equal numbers are equal records
FShift(sg, m, e, tz) == [sg |-> sg, m |-> BShr(m, tz), e |-> e + tz]

FNorm(sg, m, e) ==
    IF m = <<>> \/ sg = 0 THEN FZero ELSE FShift(sg, m, e, BTrailing(m))

\* q with the remainder below it compared to half a unit (c), to nearest,
\* ties to even
RoundTo(sg, q, c, e, sticky) ==
    FNorm(sg,
          IF c > 0 \/ (c = 0 /\ (sticky \/ BOdd(q))) THEN BAdd(q, <<1>>) ELSE q,
          e)

RoundCut(sg, m, e, sticky, s) ==
    RoundTo(sg, BShr(m, s),
            BCmp(BSub(m, BShl(BShr(m, s), s)), BShl(<<1>>, s - 1)),
            e + s, sticky)

\* sg * m * 2^e (with a nonzero remainder below the last bit when sticky)
\* rounded to MantDig significant bits
Round53(sg, m, e, sticky) ==
    IF BitLen(m) <= MantDig THEN FNorm(sg, m, e)
    ELSE RoundCut(sg, m, e, sticky, BitLen(m) - MantDig)

Abs(n) == IF n < 0 THEN -n ELSE n

Sign(n) == IF n < 0 THEN -1 ELSE IF n > 0 THEN 1 ELSE 0

Min(x, y) == IF x < y THEN x ELSE y

\* an int taken into float arithmetic
FInt(n) == FNorm(Sign(n), BFromNat(Abs(n)), 0)

FNeg(a) == [a EXCEPT !.sg = -a.sg]

\* sa * ma * 2^e + sb * mb * 2^e, c the comparison of ma with mb
FAddAligned(sa, ma, sb, mb, e, c) ==
    IF sa # sb /\ c = 0 THEN FZero
    ELSE Round53(IF sa = sb \/ c > 0 THEN sa ELSE sb,
                 IF sa = sb THEN BAdd(ma, mb)
                 ELSE IF c > 0 THEN BSub(ma, mb) ELSE BSub(mb, ma),
                 e, FALSE)

FAddAt(a, b, e) ==
    FAddAligned(a.sg, BShl(a.m, a.e - e), b.sg, BShl(b.m, b.e - e), e,
                BCmp(BShl(a.m, a.e - e), BShl(b.m, b.e - e)))

FAdd(a, b) ==
    IF a.sg = 0 THEN b
    ELSE IF b.sg = 0 THEN a
    ELSE FAddAt(a, b, Min(a.e, b.e))

FSub(a, b) == FAdd(a, FNeg(b))

FMul(a, b) == Round53(a.sg * b.sg, BMul(a.m, b.m), a.e + b.e, FALSE)

\* quotient d of the dividend's mantissa scaled by 2^k
FDivAt(a, b, k, d) == Round53(a.sg * b.sg, d.q, a.e - b.e - k, d.r # 0)

FDivBy(a, b, k) == FDivAt(a, b, k, BDivS(BShl(a.m, k), b.m[1]))

\* a / b, correctly rounded, for a divisor whose odd part fits one limb (the
\* divisors of the program are n_pan and an opening_width of few digits; no
\* other divisor has a value here, as a zero divisor has none in Python)
FDiv(a, b) ==
    CASE Len(b.m) = 1 ->
        IF a.sg = 0 THEN FZero ELSE FDivBy(a, b, MantDig + LimbBits + 2)

FLt(a, b) == FSub(a, b).sg < 0

FLe(a, b) == FSub(a, b).sg <= 0

FAbs(a) == [a EXCEPT !.sg = Abs(a.sg)]

\* the float literals of the source
Half == [sg |-> 1, m |-> <<1>>, e |-> -1]

MinusHalf == FNeg(Half)

\* 0.40 is parsed to the float nearest 2/5
LightFactMin == FDiv(FInt(40), FInt(100))


Two == FInt(2)

\* ------------------------------------------------------------------------
\* The geometry kernel (FreeCAD Part), as constructors of shape terms

\* FreeCAD.Vector(x, y, z)
Vector(x, y, z) == <<x, y, z>>

VZOR == Vector(FZero, FZero, FZero)

\* PL0 = App.Placement(VZOR, ROT0)
PL0 == [Base |-> VZOR, Rotation |-> "ROT0"]

Placement(base) == [Base |-> base, Rotation |-> "ROT0"]

makePolygon(pts) == [ShapeType |-> "Wire", Vertexes |-> pts]

makeFilledFace(wire) == [ShapeType |-> "Face", Wire |-> wire.Vertexes]

extrude(face, dir) ==
    [ShapeType |-> "Solid", Wire |-> face.Wire, Dir |-> dir, Placement |-> PL0]

makeCompound(shapes) ==
    [ShapeType |-> "Compound", Shapes |-> shapes, Placement |-> PL0]

\* ------------------------------------------------------------------------
\* Components

frame_rectangular(tel_w, tel_h, tel_ww, tel_wh, tel_th) ==
    LET i_tel_w == FSub(tel_w, FMul(tel_ww, Two))
        i_tel_h == FSub(tel_h, FMul(tel_wh, Two))
        ep0 == Vector(FMul(tel_w, MinusHalf), FZero, FZero)
        ep1 == Vector(FMul(tel_w, Half), FZero, FZero)
        ep2 == Vector(FMul(tel_w, Half), FZero, tel_h)
        ep3 == Vector(FMul(tel_w, MinusHalf), FZero, tel_h)
        ip0 == Vector(FMul(i_tel_w, MinusHalf), FZero, tel_ww)
        ip1 == Vector(FMul(i_tel_w, Half), FZero, tel_ww)
        ip2 == Vector(FMul(i_tel_w, Half), FZero, FAdd(tel_ww, i_tel_h))
        ip3 == Vector(FMul(i_tel_w, MinusHalf), FZero, FAdd(tel_ww, i_tel_h))
        tel_bp == makePolygon(<<ep0, ep1, ip1, ip0, ep0>>)
        tel_rp == makePolygon(<<ep1, ep2, ip2, ip1, ep1>>)
        tel_tp == makePolygon(<<ep2, ep3, ip3, ip2, ep2>>)
        tel_lp == makePolygon(<<ep3, ep0, ip0, ip3, ep3>>)
        dir == Vector(FZero, tel_th, FZero)
        tel_fbs == extrude(makeFilledFace(tel_bp), dir)
        tel_frs == extrude(makeFilledFace(tel_rp), dir)
        tel_fts == extrude(makeFilledFace(tel_tp), dir)
        tel_fls == extrude(makeFilledFace(tel_lp), dir)
    IN  makeCompound(<<tel_fbs, tel_frs, tel_fts, tel_fls>>)

glass(ea_w, ea_h, ef_w, ef_h, v_a, frame_th, glass_th) ==
    LET v_w == FAdd(FSub(ea_w, ef_w), FMul(v_a, Two))
        v_h == FAdd(FSub(ea_h, ef_h), FMul(v_a, Two))
        vp0 == Vector(FMul(v_w, MinusHalf), FZero, FSub(ef_w, v_a))
        vp1 == Vector(FMul(v_w, Half), FZero, FSub(ef_w, v_a))
        vp2 == Vector(FMul(v_w, Half), FZero, FAdd(FSub(ef_h, v_a), v_h))
        vp3 == Vector(FMul(v_w, MinusHalf), FZero, FAdd(FSub(ef_h, v_a), v_h))
        glass_p == makePolygon(<<vp0, vp1, vp2, vp3, vp0>>)
        glass_f == makeFilledFace(glass_p)
    IN  extrude(glass_f, Vector(FZero, glass_th, FZero))

\* the kernel primitives one call of each builder invokes
NoCalls ==
    [makePolygon |-> 0, makeFilledFace |-> 0, extrude |-> 0, makeCompound |-> 0,
     frame_rectangular |-> 0, glass |-> 0]

frame_rectangular_calls(c) ==
    [c EXCEPT !.frame_rectangular = @ + 1, !.makePolygon = @ + 4,
              !.makeFilledFace = @ + 4, !.extrude = @ + 4, !.makeCompound = @ + 1]

glass_calls(c) ==
    [c EXCEPT !.glass = @ + 1, !.makePolygon = @ + 1,
              !.makeFilledFace = @ + 1, !.extrude = @ + 1]

\* ------------------------------------------------------------------------
\* Inputs

MaxWidth == 37

MaxHeight == 6

MaxFrameWidth == 2

MaxFrameTh == 2

MaxGlassTh == 2

MaxPan == 10

MaxDim == 5

MaxBorder == 2

MaxReveal == 1

\* the keyword defaults of window_single_pane
DefaultHeight == 1400

DefaultWidth == 1200

DefaultFrameWidth == 50

DefaultFrameTh == 50

DefaultGlassTh == 21

DefaultPan == 1

Defaults ==
    [opening_height |-> DefaultHeight, opening_width |-> DefaultWidth,
     frame_width |-> DefaultFrameWidth, frame_th |-> DefaultFrameTh,
     glass_th |-> DefaultGlassTh, n_pan |-> DefaultPan, unit |-> 1]

\* pane counts: the supported 1..9, none, a negative one and too many
Pans == -1..MaxPan

\* A length argument k stands for the Python number k / unit: an int for
\* unit 1, the float of a literal with one decimal digit for unit 10.
Units == {1, 10}

\* Calls with positive lengths and any pane count.  The opening width and the
\* frame width, which decide the light factor together, vary jointly; the
\* opening height varies with the frame width, in whole and in decimal
\* lengths; the two thicknesses vary jointly; every other argument is left at
\* its keyword default.
WidthArgs ==
    {[Defaults EXCEPT !.opening_width = w, !.frame_width = f, !.n_pan = n] :
        w \in 1..MaxWidth, f \in 1..MaxFrameWidth, n \in Pans}

HeightArgs ==
    {[Defaults EXCEPT !.opening_height = h, !.frame_width = f, !.n_pan = n,
                      !.unit = u] :
        h \in 1..MaxHeight, f \in 1..MaxFrameWidth, n \in Pans, u \in Units}

ThicknessArgs ==
    {[Defaults EXCEPT !.frame_th = t, !.glass_th = g, !.n_pan = n] :
        t \in 1..MaxFrameTh, g \in 1..MaxGlassTh, n \in Pans}

DefaultArgs == {[Defaults EXCEPT !.n_pan = n] : n \in Pans}

WindowArgs == WidthArgs \cup HeightArgs \cup ThicknessArgs \cup DefaultArgs

\* ------------------------------------------------------------------------
\* State

VARIABLES
    pc,          \* position in window_single_pane, "idle" between calls
    args,        \* the arguments of the running window_single_pane call
    components,  \* its list components
    cnt,         \* its loop counter
    result,      \* what the call returned: Pending, None or a shape
    stdout,      \* what it printed
    calls,       \* how often each kernel primitive and builder was invoked
    frame_args,  \* the arguments of each frame_rectangular call, in order
    shape        \* the last direct call of a component builder

vars == <<pc, args, components, cnt, result, stdout, calls, frame_args, shape>>

NoShape == [fn |-> "none"]

\* Python's None, and the result of a call that has not returned yet
None == [ShapeType |-> "None"]

Pending == [ShapeType |-> "Pending"]

Init ==
    /\ pc = "idle"
    /\ args = Defaults
    /\ components = <<>>
    /\ cnt = 0
    /\ result = Pending
    /\ stdout = <<>>
    /\ calls = NoCalls
    /\ frame_args = <<>>
    /\ shape = NoShape

\* ------------------------------------------------------------------------
\* window_single_pane: its locals

\* the Python value of a length argument
Length(k) == IF args.unit = 1 THEN FInt(k) ELSE FDiv(FInt(k), FInt(args.unit))

frame_width == Length(args.frame_width)

opening_width == Length(args.opening_width)

opening_height == Length(args.opening_height)

frame_th == Length(args.frame_th)

glass_th == Length(args.glass_th)

frame_height == frame_width

frame_ov_wid_inner_only == FMul(FInt(args.n_pan), FMul(frame_width, Two))

frame_ov_wid ==
    FAdd(FMul(FInt(args.n_pan), FMul(frame_width, Two)), FMul(frame_width, Two))

light_fact ==
    FDiv(FSub(opening_width, frame_ov_wid), opening_width)

ef_w == FMul(frame_width, Two)

ef_h == FMul(frame_height, Two)

res_w_one_border == FSub(opening_width, frame_width)

res_w == FSub(opening_width, ef_w)

res_h == FSub(opening_height, ef_h)

v_a == FZero

fact_w == FDiv(res_w, FInt(args.n_pan))

\* the arguments of a frame_rectangular call as window_single_pane passes them
FrameArgs(tel_w, tel_h, tel_ww, tel_wh) ==
    [tel_w |-> tel_w, tel_h |-> tel_h, tel_ww |-> tel_ww, tel_wh |-> tel_wh]

\* one opening panel: the inner frame and its glass, placed at x offset ofx
open_frame(ea_w, ea_h, ofx) ==
    [frame_rectangular(ea_w, ea_h, frame_width, frame_height, frame_th)
        EXCEPT !.Placement = Placement(Vector(ofx, FZero, frame_height))]

glass_s_flush(ea_w, ea_h, ofx) ==
    [glass(ea_w, ea_h, ef_w, ef_h, v_a, frame_th, glass_th)
        EXCEPT !.Placement =
            Placement(Vector(ofx, FSub(frame_th, glass_th), FZero))]

glass_s(ea_w, ea_h, ofx) ==
    [glass(ea_w, ea_h, ef_w, ef_h, v_a, frame_th, glass_th)
        EXCEPT !.Placement =
            Placement(Vector(ofx,
                             FMul(FSub(frame_th, glass_th), Half),
                             FZero))]

ofx_of_cnt(n) ==
    FAdd(FAdd(FMul(res_w, MinusHalf), FMul(fact_w, Half)),
         FMul(FInt(n), fact_w))

\* adv_x = (cnt - 1) * fact_w; ofx = (res_w * -0.5) + fact_w * 0.5 + adv_x
ofx_of(n) ==
    FAdd(FAdd(FMul(res_w, MinusHalf), FMul(fact_w, Half)),
         FMul(FInt(n - 1), fact_w))

\* ------------------------------------------------------------------------
\* window_single_pane: its steps

Call(a) ==
    /\ pc = "idle"
    /\ pc' = "congruency"
    /\ args' = a
    /\ components' = <<>>
    /\ cnt' = 0
    /\ result' = Pending
    /\ stdout' = <<>>
    /\ calls' = NoCalls
    /\ frame_args' = <<>>
    /\ shape' = NoShape

Congruency ==
    /\ pc = "congruency"
    /\ IF FLt(light_fact, LightFactMin)
       THEN /\ stdout' = Append(stdout,
                   "Too Many panes in the window resulting in < 40% of the opening")
            /\ result' = None
            /\ pc' = "done"
       ELSE /\ pc' = "fixed_frame"
            /\ UNCHANGED <<stdout, result>>
    /\ UNCHANGED <<args, components, cnt, calls, frame_args, shape>>

FixedFrame ==
    /\ pc = "fixed_frame"
    /\ components' =
           Append(components,
                  frame_rectangular(opening_width, opening_height,
                                    frame_width, frame_height, frame_th))
    /\ calls' = frame_rectangular_calls(calls)
    /\ frame_args' =
           Append(frame_args,
                  FrameArgs(opening_width, opening_height,
                            frame_width, frame_height))
    /\ pc' = "panels"
    /\ UNCHANGED <<args, cnt, result, stdout, shape>>

Panels ==
    /\ pc = "panels"
    /\ IF args.n_pan = 0
       THEN /\ result' = None
            /\ pc' = "done"
            /\ UNCHANGED <<components, cnt, calls, frame_args>>
       ELSE IF args.n_pan = 1
       THEN /\ components' =
                   components \o <<open_frame(res_w, res_h, FZero),
                                   glass_s(res_w, res_h, FZero)>>
            /\ calls' = glass_calls(frame_rectangular_calls(calls))
            /\ frame_args' =
                   Append(frame_args,
                          FrameArgs(res_w, res_h, frame_width, frame_height))
            /\ pc' = "assemble"
            /\ UNCHANGED <<cnt, result>>
       ELSE IF args.n_pan > 1 /\ args.n_pan < 10
       THEN /\ cnt' = 1
            /\ pc' = "loop"
            /\ UNCHANGED <<components, result, calls, frame_args>>
       ELSE /\ pc' = "assemble"
            /\ UNCHANGED <<components, cnt, result, calls, frame_args>>
    /\ UNCHANGED <<args, stdout, shape>>

loop_exit_early == cnt >= args.n_pan

\* if cnt > n_pan: break
loop_exit == cnt > args.n_pan

Loop ==
    /\ pc = "loop"
    /\ IF loop_exit
       THEN /\ pc' = "assemble"
            /\ UNCHANGED <<components, cnt, calls, frame_args>>
       ELSE /\ components' =
                   components \o <<open_frame(fact_w, res_h, ofx_of(cnt)),
                                   glass_s(fact_w, res_h, ofx_of(cnt))>>
            /\ calls' = glass_calls(frame_rectangular_calls(calls))
            /\ frame_args' =
                   Append(frame_args,
                          FrameArgs(fact_w, res_h, frame_width, frame_height))
            /\ cnt' = cnt + 1
            /\ pc' = "loop"
    /\ UNCHANGED <<args, result, stdout, shape>>

Assemble ==
    /\ pc = "assemble"
    /\ result' = makeCompound(components)
    /\ calls' = [calls EXCEPT !.makeCompound = @ + 1]
    /\ pc' = "done"
    /\ UNCHANGED <<args, components, cnt, stdout, frame_args, shape>>

\* the caller takes the result; the next call starts from scratch
Return ==
    /\ pc = "done"
    /\ pc' = "idle"
    /\ args' = Defaults
    /\ components' = <<>>
    /\ cnt' = 0
    /\ result' = Pending
    /\ stdout' = <<>>
    /\ calls' = NoCalls
    /\ frame_args' = <<>>
    /\ shape' = NoShape

\* ------------------------------------------------------------------------
\* Direct calls of the component builders

CallFrameRectangular(tel_w, tel_h, tel_ww, tel_wh, tel_th) ==
    /\ pc = "idle"
    /\ shape' = [fn |-> "frame_rectangular",
                 in |-> [tel_w |-> tel_w, tel_h |-> tel_h, tel_ww |-> tel_ww,
                         tel_wh |-> tel_wh, tel_th |-> tel_th],
                 out |-> frame_rectangular(FInt(tel_w), FInt(tel_h), FInt(tel_ww),
                                           FInt(tel_wh), FInt(tel_th))]
    /\ pc' = "done"
    /\ UNCHANGED <<args, components, cnt, result, stdout, calls, frame_args>>

CallGlass(ea_w, ea_h, gef_w, gef_h, gv_a, gframe_th, gglass_th) ==
    /\ pc = "idle"
    /\ shape' = [fn |-> "glass",
                 in |-> [ea_w |-> ea_w, ea_h |-> ea_h, ef_w |-> gef_w, ef_h |-> gef_h,
                         v_a |-> gv_a, frame_th |-> gframe_th, glass_th |-> gglass_th],
                 out |-> glass(FInt(ea_w), FInt(ea_h), FInt(gef_w), FInt(gef_h),
                               FInt(gv_a), FInt(gframe_th), FInt(gglass_th))]
    /\ pc' = "done"
    /\ UNCHANGED <<args, components, cnt, result, stdout, calls, frame_args>>

Next ==
    \/ \E a \in WindowArgs : Call(a)
    \/ Congruency
    \/ FixedFrame
    \/ Panels
    \/ Loop
    \/ Assemble
    \/ Return
    \/ \E tel_w, tel_h \in 1..MaxDim, tel_ww, tel_wh \in 1..MaxBorder,
          tel_th \in 1..MaxFrameTh :
            CallFrameRectangular(tel_w, tel_h, tel_ww, tel_wh, tel_th)
    \/ \E ea_w, ea_h \in 1..MaxDim, gef_w, gef_h \in 1..MaxBorder,
          gv_a \in 0..MaxReveal, gglass_th \in 1..MaxGlassTh :
            CallGlass(ea_w, ea_h, gef_w, gef_h, gv_a, DefaultFrameTh, gglass_th)

Spec == Init /\ [][Next]_vars

\* ------------------------------------------------------------------------
\* Reading a returned shape

\* a window_single_pane call has returned / has returned a compound
Returned == pc = "done" /\ shape = NoShape

Built == Returned /\ result.ShapeType = "Compound"

Supported == args.n_pan \in 1..9

IsSolid(s) == s.ShapeType = "Solid"

IsFrame(f) ==
    /\ f.ShapeType = "Compound"
    /\ Len(f.Shapes) = 4
    /\ \A k \in 1..4 : IsSolid(f.Shapes[k])

\* the corners of a frame, read off its bottom, right and top legs
OuterBL(f) == f.Shapes[1].Wire[1]

OuterBR(f) == f.Shapes[1].Wire[2]

OuterTR(f) == f.Shapes[2].Wire[2]

InnerBR(f) == f.Shapes[1].Wire[3]

InnerBL(f) == f.Shapes[1].Wire[4]

InnerTR(f) == f.Shapes[2].Wire[3]

ExtentW(f) == FSub(OuterBR(f)[1], OuterBL(f)[1])

ExtentH(f) == FSub(OuterTR(f)[3], OuterBL(f)[3])

\* a local point of a shape after the shape's placement is applied
Placed(s, v) ==
    <<FAdd(v[1], s.Placement.Base[1]), FAdd(v[2], s.Placement.Base[2]),
      FAdd(v[3], s.Placement.Base[3])>>

Ofx(s) == s.Placement.Base[1]

RECURSIVE FlatCount(_)
FlatCount(shapes) ==
    IF shapes = <<>> THEN 0
    ELSE (IF Head(shapes).ShapeType = "Compound"
          THEN Len(Head(shapes).Shapes) ELSE 1) + FlatCount(Tail(shapes))

\* sys.float_info.epsilon, 2^-52
Epsilon == [sg |-> 1, m |-> <<1>>, e |-> -52]

\* |x - y| <= tol
Within(x, y, tol) == FLe(FAbs(FSub(x, y)), tol)

Warning == "Too Many panes in the window resulting in < 40% of the opening"

\* ------------------------------------------------------------------------
\* C1

\* frame_ov_wid and the light-factor test in exact integer arithmetic
OvInt == args.n_pan * 2 * args.frame_width + 2 * args.frame_width

BelowInt == 5 * (args.opening_width - OvInt) < 2 * args.opening_width

\* the test on the program's own float light_fact, for decimal lengths
Below == IF args.unit = 1 THEN BelowInt ELSE FLt(light_fact, LightFactMin)

IsDefaultOpening ==
    /\ args.opening_width = DefaultWidth
    /\ args.frame_width = DefaultFrameWidth
    /\ args.unit = 1

\* C1: a call whose light factor is below 0.40 prints the warning and returns
\* None; a call whose light factor is 0.40 or more prints nothing and, for
\* n_pan in 1..9, returns a compound.  For opening_width 1200 and frame_width
\* 50 the call builds at n_pan = 4, aborts at n_pan = 9, and aborts exactly
\* from n_pan = 7 on, the first pane count whose light factor is below 0.40.
C1_LightFactorThreshold ==
    Returned =>
        /\ Below => result = None /\ stdout = <<Warning>>
        /\ ~Below => stdout = <<>>
        /\ ~Below /\ Supported => result.ShapeType = "Compound"
        /\ IsDefaultOpening =>
              /\ args.n_pan = 4 => result.ShapeType = "Compound"
              /\ args.n_pan = 9 => result = None /\ stdout = <<Warning>>
              /\ stdout = <<Warning>> <=> args.n_pan >= 7

\* a window is built with a light factor of exactly 0.40
C1_Witness ==
    /\ Built
    /\ Supported
    /\ args.unit = 1
    /\ 5 * (args.opening_width - OvInt) = 2 * args.opening_width

\* ------------------------------------------------------------------------
\* C2

\* C2: for a pane count outside 1..9 the call returns no geometry, never a
\* compound.
C2_UnsupportedYieldsNoGeometry ==
    Returned /\ ~Supported => result = None

\* ------------------------------------------------------------------------
\* C3

\* C3: for n_pan in 1..9 past the light-factor check the bay loop ends after
\* exactly n_pan iterations, and the compound returned holds the outer fixed
\* frame first (4 legs, the full opening, unplaced), then per bay, in
\* increasing bay order, one inner frame (4 legs) directly followed by that
\* bay's glass solid, and nothing else: 4 + 5 * n_pan solids when flattened.
C3_CompoundLayout ==
    /\ pc = "loop" => cnt \in 1..(args.n_pan + 1)
    /\ pc = "assemble" /\ args.n_pan \in 2..9 => cnt = args.n_pan + 1
    /\ Built /\ Supported =>
          /\ Len(result.Shapes) = 1 + 2 * args.n_pan
          /\ IsFrame(result.Shapes[1])
          /\ ExtentW(result.Shapes[1]) = opening_width
          /\ ExtentH(result.Shapes[1]) = opening_height
          /\ result.Shapes[1].Placement = PL0
          /\ \A i \in 1..args.n_pan :
                /\ IsFrame(result.Shapes[2 * i])
                /\ IsSolid(result.Shapes[2 * i + 1])
                /\ Ofx(result.Shapes[2 * i + 1]) = Ofx(result.Shapes[2 * i])
                /\ i > 1 => FLt(Ofx(result.Shapes[2 * i - 2]),
                                Ofx(result.Shapes[2 * i]))
          /\ FlatCount(result.Shapes) = 4 + 5 * args.n_pan
          /\ calls.frame_rectangular = 1 + args.n_pan
          /\ calls.glass = args.n_pan

\* a nine-pane window is returned
C3_Witness == Built /\ args.n_pan = 9 /\ Len(result.Shapes) = 19

\* ------------------------------------------------------------------------
\* C8

\* C8: a call that returns None has invoked no kernel primitive and no
\* builder before it returns.
C8_ValidationBeforeKernel ==
    Returned /\ result = None => calls = NoCalls

\* ------------------------------------------------------------------------
\* C4

\* opening_width - 2*frame_width and opening_height - 2*frame_width
ResidualW == FSub(opening_width, FMul(Two, frame_width))

ResidualH == FSub(opening_height, FMul(Two, frame_width))

\* every inner frame has the first one's width, the residual height, and
\* sits at vertical offset frame_width; a single one spans the residual width
InnerFrameSizes ==
    /\ \A i \in 1..args.n_pan :
          /\ ExtentW(result.Shapes[2 * i]) = ExtentW(result.Shapes[2])
          /\ ExtentH(result.Shapes[2 * i]) = ResidualH
          /\ result.Shapes[2 * i].Placement.Base[3] = frame_width
    /\ args.n_pan = 1 => ExtentW(result.Shapes[2]) = ResidualW

\* n_pan times the width of a bay, as Python multiplies
BaysWidth == FMul(FInt(args.n_pan), ExtentW(result.Shapes[2]))

\* C4 as stated: the inner frame sizes, with n_pan * fact_w equal to
\* opening_width - 2*frame_width for n_pan in 2..9.
C4_BayWidthsSumExactly ==
    Built /\ Supported =>
        /\ InnerFrameSizes
        /\ args.n_pan >= 2 => BaysWidth = ResidualW

\* C4 (amended): the inner frame sizes, with n_pan * fact_w equal to
\* opening_width - 2*frame_width within floating-point tolerance (a relative
\* error of at most 2^-52) for n_pan in 2..9.
C4_BayWidthsSumWithinTolerance ==
    Built /\ Supported =>
        /\ InnerFrameSizes
        /\ args.n_pan >= 2 =>
              Within(BaysWidth, ResidualW, FMul(FAbs(ResidualW), Epsilon))

\* a multi-pane window whose bay widths do not sum exactly to the residual
C4_Witness ==
    Built /\ args.n_pan \in 2..9 /\ BaysWidth # ResidualW

\* ------------------------------------------------------------------------
\* C5

\* -res_w/2 + fact_w/2 + (i-1)*fact_w, from the sizes of the built window
OfxFormula(i) ==
    FAdd(FAdd(FNeg(FDiv(ResidualW, Two)), FDiv(ExtentW(result.Shapes[2]), Two)),
         FMul(FInt(i - 1), ExtentW(result.Shapes[2])))

\* bay i sits at the offset of the formula, frame and glass alike, and the
\* offsets increase with i
BayOffsets ==
    \A i \in 1..args.n_pan :
        /\ Ofx(result.Shapes[2 * i]) = OfxFormula(i)
        /\ Ofx(result.Shapes[2 * i + 1]) = OfxFormula(i)
        /\ i > 1 => FLt(Ofx(result.Shapes[2 * i - 2]), Ofx(result.Shapes[2 * i]))

\* the offset of bay i plus that of its mirror bay n_pan + 1 - i
MirrorSum(i) ==
    FAdd(Ofx(result.Shapes[2 * i]),
         Ofx(result.Shapes[2 * (args.n_pan + 1 - i)]))

\* C5 as stated: the bay offsets, with ofx_i == -ofx_(n_pan+1-i) for even
\* n_pan.
C5_OffsetsSymmetricExactly ==
    Built /\ args.n_pan \in 2..9 =>
        /\ BayOffsets
        /\ args.n_pan % 2 = 0 =>
              \A i \in 1..args.n_pan : MirrorSum(i) = FZero

\* C5 (amended): the bay offsets; for even n_pan they are symmetric about
\* x = 0 within floating-point tolerance, |ofx_i + ofx_(n_pan+1-i)| <=
\* 2^-50 * res_w; exactly so for n_pan = 2 and, when the lengths are
\* integers, for n_pan = 4 and n_pan = 8.
C5_OffsetsSymmetricWithinTolerance ==
    Built /\ args.n_pan \in 2..9 =>
        /\ BayOffsets
        /\ args.n_pan % 2 = 0 =>
              \A i \in 1..args.n_pan :
                  /\ Within(MirrorSum(i), FZero,
                            FMul(FAbs(ResidualW), FMul(FInt(4), Epsilon)))
                  /\ args.n_pan = 2 => MirrorSum(i) = FZero
                  /\ args.unit = 1 /\ args.n_pan \in {4, 8} =>
                        MirrorSum(i) = FZero

\* a six-pane window whose outermost bays are not exact mirror images
C5_Witness ==
    Built /\ args.n_pan = 6 /\ MirrorSum(1) # FZero

\* ------------------------------------------------------------------------
\* C6

\* tel_w/2 - tel_ww, for the int arguments of a direct call
InsetX == FDiv(FInt(shape.in.tel_w - 2 * shape.in.tel_ww), Two)

HalfW == FDiv(FInt(shape.in.tel_w), Two)

\* C6: the inner rectangle of frame_rectangular is inset by tel_ww on the
\* left and right and by tel_wh at the bottom and the top, and each leg is
\* the loop outer-start, outer-end, inner-end, inner-start, outer-start.
C6_FrameInset ==
    shape.fn = "frame_rectangular" =>
        LET ep0 == <<FNeg(HalfW), FZero, FZero>>
            ep1 == <<HalfW, FZero, FZero>>
            ep2 == <<HalfW, FZero, FInt(shape.in.tel_h)>>
            ep3 == <<FNeg(HalfW), FZero, FInt(shape.in.tel_h)>>
            ip0 == <<FNeg(InsetX), FZero, FInt(shape.in.tel_wh)>>
            ip1 == <<InsetX, FZero, FInt(shape.in.tel_wh)>>
            ip2 == <<InsetX, FZero, FInt(shape.in.tel_h - shape.in.tel_wh)>>
            ip3 == <<FNeg(InsetX), FZero, FInt(shape.in.tel_h - shape.in.tel_wh)>>
        IN  /\ IsFrame(shape.out)
            /\ shape.out.Shapes[1].Wire = <<ep0, ep1, ip1, ip0, ep0>>
            /\ shape.out.Shapes[2].Wire = <<ep1, ep2, ip2, ip1, ep1>>
            /\ shape.out.Shapes[3].Wire = <<ep2, ep3, ip3, ip2, ep2>>
            /\ shape.out.Shapes[4].Wire = <<ep3, ep0, ip0, ip3, ep3>>

\* ------------------------------------------------------------------------
\* C7

\* C7: glass builds a rectangle of width ea_w - ef_w + 2*v_a centred on
\* x = 0, its bottom edge at z = ef_w - v_a and its top edge the inset height
\* ea_h - ef_h + 2*v_a above the bottom edge, extruded by glass_th into one
\* solid.
C7_GlassRectangle ==
    shape.fn = "glass" =>
        LET w  == FInt(shape.in.ea_w - shape.in.ef_w + 2 * shape.in.v_a)
            h  == shape.in.ea_h - shape.in.ef_h + 2 * shape.in.v_a
            b  == shape.in.ef_w - shape.in.v_a
            x0 == FNeg(FDiv(w, Two))
            x1 == FDiv(w, Two)
        IN  /\ IsSolid(shape.out)
            /\ shape.out.Wire = <<<<x0, FZero, FInt(b)>>, <<x1, FZero, FInt(b)>>,
                                  <<x1, FZero, FInt(b + h)>>,
                                  <<x0, FZero, FInt(b + h)>>,
                                  <<x0, FZero, FInt(b)>>>>
            /\ shape.out.Dir = <<FZero, FInt(shape.in.glass_th), FZero>>

\* ------------------------------------------------------------------------
\* C9

\* C9: every frame_rectangular call of window_single_pane has its horizontal
\* border below half the outer width and its vertical border below half the
\* outer height.
C9_FramesNotDegenerate ==
    \A i \in 1..Len(frame_args) :
        /\ FLt(FMul(Two, frame_args[i].tel_ww), frame_args[i].tel_w)
        /\ FLt(FMul(Two, frame_args[i].tel_wh), frame_args[i].tel_h)

\* ------------------------------------------------------------------------
\* C10

\* left, right and bottom of the inner opening of bay i's frame and of its
\* glass, after placement
GlassMeetsSash(i) ==
    LET f == result.Shapes[2 * i]
        g == result.Shapes[2 * i + 1]
    IN  /\ Placed(g, g.Wire[1])[1] = Placed(f, InnerBL(f))[1]
        /\ Placed(g, g.Wire[2])[1] = Placed(f, InnerBR(f))[1]
        /\ Placed(g, g.Wire[1])[3] = Placed(f, InnerBL(f))[3]
        /\ Placed(g, g.Wire[2])[3] = Placed(f, InnerBR(f))[3]
        /\ Placed(g, g.Wire[1])[2] = FDiv(FSub(frame_th, glass_th), Two)

\* top of the glass and top of the inner opening of bay i, after placement
GlassTop(i) ==
    Placed(result.Shapes[2 * i + 1], result.Shapes[2 * i + 1].Wire[3])[3]

SashTop(i) == Placed(result.Shapes[2 * i], InnerTR(result.Shapes[2 * i]))[3]

\* C10 as stated: in every bay the placed glass rectangle coincides exactly
\* with the inner opening of the bay's frame, and the glass starts at depth
\* (frame_th - glass_th)/2.
C10_GlassFitsExactly ==
    Built /\ Supported =>
        \A i \in 1..args.n_pan : GlassMeetsSash(i) /\ GlassTop(i) = SashTop(i)

\* C10 (amended): in every bay the placed glass has exactly the left, right
\* and bottom bounds of the inner opening of the bay's frame and starts at
\* depth (frame_th - glass_th)/2; its top coincides with the top of the
\* inner opening exactly when the lengths are integers, and otherwise within
\* floating-point tolerance, 2^-51 * (opening_height + 4*frame_width).
C10_GlassFitsWithinTolerance ==
    Built /\ Supported =>
        \A i \in 1..args.n_pan :
            /\ GlassMeetsSash(i)
            /\ Within(GlassTop(i), SashTop(i),
                      FMul(FAdd(opening_height, FMul(FInt(4), frame_width)),
                           FMul(Two, Epsilon)))
            /\ args.unit = 1 => GlassTop(i) = SashTop(i)

\* a window of decimal lengths whose glass top and sash top differ
C10_Witness ==
    Built /\ Supported /\ GlassTop(1) # SashTop(1)

==========================================================================
